---- MODULE Spec2Model ----
(***************************************************************************)
(* Model of scripts/CreateDeployments.py: the copy-then-render deployment  *)
(* of a template directory (deploy_app, render_template) and the           *)
(* orchestration of __main__ (single-application and full-stack mode).     *)
(*                                                                         *)
(* A file name is the sequence of its characters, so that                  *)
(* fname.endswith('.j2') and fname[:-3] are computed as Python computes    *)
(* them.  The text of a file is a sequence of tokens: a literal, a line    *)
(* break, the variable reference {{v}} and a block tag no 'if' opens.      *)
(* A directory is a function from the names of its entries to nodes.       *)
(***************************************************************************)
EXTENDS Naturals, Sequences, FiniteSets

\* ------------------------------------------------------------- bounds
MaxSrcEntries == 2
MaxDestEntries == 1
MaxRuns == 2

\* ------------------------------------------------------------- names
J2 == <<".", "j", "2">>

endswith(fname) ==
    /\ Len(fname) >= Len(J2)
    /\ SubSeq(fname, Len(fname) - Len(J2) + 1, Len(fname)) = J2

\* fname[:-2], a slice one character short.
strip_short(fname) == SubSeq(fname, 1, Len(fname) - 2)

\* fname[:-3]
strip(fname) == SubSeq(fname, 1, Len(fname) - 3)

TopNames == { <<"x">>, <<"x">> \o J2, <<"x">> \o J2 \o J2, J2 }
SubNames == { <<"x">>, <<"x">> \o J2 }

\* ------------------------------------------------------------- texts
VarTok == "{{v}}"
BadTok == "{% endif %}"
NL == "\n"
Texts == { <<"a">>, <<VarTok, NL>>, <<BadTok>> }
Mappings == { [k \in {"v"} |-> "b"], [k \in {} |-> "b"] }

\* Jinja's lexer drops one trailing line break of the template source.
DropTrailingNL(text) ==
    IF Len(text) > 0 /\ text[Len(text)] = NL
    THEN SubSeq(text, 1, Len(text) - 1)
    ELSE text

\* A block tag that closes nothing is a TemplateSyntaxError.
Compiles(text) == \A i \in 1..Len(text) : text[i] # BadTok

\* An undefined variable prints as the empty string.
RenderTok(tok, input_json) ==
    IF tok = VarTok
    THEN IF "v" \in DOMAIN input_json THEN <<input_json["v"]>> ELSE <<>>
    ELSE <<tok>>

RECURSIVE Expand(_, _)
Expand(text, input_json) ==
    IF text = <<>> THEN <<>>
    ELSE RenderTok(Head(text), input_json) \o Expand(Tail(text), input_json)

Render(text, input_json) == Expand(DropTrailingNL(text), input_json)

\* ------------------------------------------------------------- nodes
Absent == [kind |-> "absent"]
FileN(text) == [kind |-> "file", data |-> text]
DirN(kids) == [kind |-> "dir", kids |-> kids]
EmptyDir == DirN([n \in {} |-> Absent])

IsFile(node) == node.kind = "file"
IsDir(node) == node.kind = "dir"
Exists(node) == node.kind # "absent"

Names(dir) == DOMAIN dir.kids
Lookup(dir, n) ==
    IF IsDir(dir) /\ n \in Names(dir) THEN dir.kids[n] ELSE Absent
Put(dir, n, node) ==
    DirN([m \in Names(dir) \cup {n} |-> IF m = n THEN node ELSE dir.kids[m]])
Remove(dir, n) == DirN([m \in Names(dir) \ {n} |-> dir.kids[m]])

\* ------------------------------------------------------------- copy_tree
\* distutils.dir_util.copy_tree, one entry n of a source directory copied
\* onto node, what the destination holds under the same name: a file is
\* written to dst/n, or into dst/n under its own name when dst/n is a
\* directory (copy_file); a directory is created or merged into (mkpath) and
\* its entries copied the same way.
RECURSIVE CopyNode(_, _, _)

\* copy_file appending to a file that is already at the destination.
CopyNode_appends(node, n, srcNode) ==
    IF IsFile(srcNode)
    THEN IF IsDir(node) THEN Put(node, n, srcNode)
         ELSE IF IsFile(node) THEN FileN(node.data \o srcNode.data) ELSE srcNode
    ELSE LET base == IF IsDir(node) THEN node ELSE EmptyDir
         IN  DirN([c \in Names(base) \cup Names(srcNode) |->
                     IF c \in Names(srcNode)
                     THEN CopyNode(Lookup(base, c), c, srcNode.kids[c])
                     ELSE base.kids[c]])

\* copy_file leaving a file that is already at the destination as it is.
CopyNode_keeps(node, n, srcNode) ==
    IF IsFile(srcNode)
    THEN IF IsDir(node) THEN Put(node, n, srcNode)
         ELSE IF IsFile(node) THEN node ELSE srcNode
    ELSE LET base == IF IsDir(node) THEN node ELSE EmptyDir
         IN  DirN([c \in Names(base) \cup Names(srcNode) |->
                     IF c \in Names(srcNode)
                     THEN CopyNode(Lookup(base, c), c, srcNode.kids[c])
                     ELSE base.kids[c]])

CopyNode(node, n, srcNode) ==
    IF IsFile(srcNode)
    THEN IF IsDir(node) THEN Put(node, n, srcNode) ELSE srcNode
    ELSE LET base == IF IsDir(node) THEN node ELSE EmptyDir
         IN  DirN([c \in Names(base) \cup Names(srcNode) |->
                     IF c \in Names(srcNode)
                     THEN CopyNode(Lookup(base, c), c, srcNode.kids[c])
                     ELSE base.kids[c]])

\* The copy of entry n onto node runs to the end: copy_file raises when the
\* path it is to write (dst/n/n when dst/n is a directory) is a directory,
\* mkpath(dst/n) raises when dst/n is a file.
RECURSIVE CanCopy(_, _, _)
CanCopy(node, n, srcNode) ==
    IF IsFile(srcNode)
    THEN ~(IsDir(node) /\ IsDir(Lookup(node, n)))
    ELSE /\ ~IsFile(node)
         /\ \A c \in Names(srcNode) : CanCopy(Lookup(node, c), c, srcNode.kids[c])

\* The entries of src that copy_tree cannot copy onto dst.
Blocked(dstDir, srcDir) ==
    { n \in Names(srcDir) : ~CanCopy(Lookup(dstDir, n), n, srcDir.kids[n]) }

\* copy_tree(src, dst) runs to the end.
CopyOk(srcNode, dstNode) == IsDir(srcNode) /\ CanCopy(dstNode, <<>>, srcNode)

copy_tree(srcNode, dstNode) == CopyNode(dstNode, <<>>, srcNode)

\* What a raising copy of entry n may leave at dst/n: a file or a blocked
\* target as it was; of a directory, the entries listed before the first
\* blocked one copied, and that one as far as its own copy came.
RECURSIVE Partial(_, _, _)
Partial(node, n, srcNode) ==
    IF IsFile(srcNode) \/ IsFile(node) THEN {node}
    ELSE LET base == IF IsDir(node) THEN node ELSE EmptyDir
             bad == Blocked(base, srcNode)
         IN  UNION { UNION { {
                 DirN([m \in Names(base) \cup P \cup {b} |->
                         IF m = b THEN left
                         ELSE IF m \in P
                         THEN CopyNode(Lookup(base, m), m, srcNode.kids[m])
                         ELSE base.kids[m]]) :
                 left \in Partial(Lookup(base, b), b, srcNode.kids[b]) } :
                 P \in SUBSET (Names(srcNode) \ bad) } : b \in bad }

\* What a raising copy_tree(src, dst) may leave at dst: dst as it was when
\* src is no directory.
CopyPartial(srcNode, dstNode) ==
    IF ~IsDir(srcNode) THEN {dstNode} ELSE Partial(dstNode, <<>>, srcNode)

\* ------------------------------------------------------------- render_template
\* The os.path.exists test left out: every call goes on to get_template.
template_exists_always(dir, template_name) == TRUE

\* os.path.exists(template_file)
template_exists(dir, template_name) == Exists(Lookup(dir, template_name))

\* j2_env.get_template(template_name).render(input_json): TemplateNotFound
\* for a file that is not there or a directory, TemplateSyntaxError for a
\* text that does not compile, else the rendered text.
get_template_render(dir, template_name, input_json) ==
    LET template_file == Lookup(dir, template_name)
    IN  IF ~IsFile(template_file) THEN [ok |-> FALSE, text |-> <<>>]
        ELSE IF ~Compiles(template_file.data) THEN [ok |-> FALSE, text |-> <<>>]
        ELSE [ok |-> TRUE, text |-> Render(template_file.data, input_json)]

\* open(output_file_path, 'w+') and f.write: IsADirectoryError when the path
\* is dest_dir itself (file_name '') or a directory.
open_write(dir, file_name, rendered_template) ==
    IF file_name = <<>> \/ IsDir(Lookup(dir, file_name))
    THEN [ok |-> FALSE, dir |-> dir]
    ELSE [ok |-> TRUE, dir |-> Put(dir, file_name, FileN(rendered_template))]

\* The os.remove left out: the template stays beside its output.
os_remove_keeps(dir, template_name) == [ok |-> TRUE, dir |-> dir]

\* os.remove(template_file): FileNotFoundError when the file is no longer
\* there.
os_remove(dir, template_name) ==
    IF ~IsFile(Lookup(dir, template_name)) THEN [ok |-> FALSE, dir |-> dir]
    ELSE [ok |-> TRUE, dir |-> Remove(dir, template_name)]

\* render_template(dest_dir, template_name, file_name, input_json) run with
\* nothing else touching dest_dir: the directory it leaves, and whether the
\* call returned (ok) or raised.
render_template(dir, template_name, file_name, input_json) ==
    IF ~template_exists(dir, template_name) THEN [ok |-> TRUE, dir |-> dir]
    ELSE LET r == get_template_render(dir, template_name, input_json)
             w == open_write(dir, file_name, r.text)
         IN  IF ~r.ok THEN [ok |-> FALSE, dir |-> dir]
             ELSE IF ~w.ok THEN w
             ELSE os_remove(w.dir, template_name)

\* ------------------------------------------------------------- the file systems
FileNodes == { FileN(t) : t \in Texts }

\* Number of entries of a node: itself and, for a directory, its files.
Size(node) == IF IsDir(node) THEN 1 + Cardinality(Names(node)) ELSE 1

\* Subdirectories of at most k files.
SubTexts == { <<"a">>, <<VarTok, NL>> }
SubDirs(k) ==
    { DirN(f) : f \in UNION { [K -> { FileN(t) : t \in SubTexts }] :
                   K \in { K \in SUBSET SubNames : Cardinality(K) <= k } } }

RECURSIVE SumSizes(_, _)
SumSizes(kids, S) ==
    IF S = {} THEN 0
    ELSE LET n == CHOOSE n \in S : TRUE
         IN  Size(kids[n]) + SumSizes(kids, S \ {n})

\* Directories holding at most k entries in all.
Trees(k) ==
    { DirN(f) : f \in UNION {
        { g \in [K -> FileNodes \cup (IF k > 0 THEN SubDirs(k - 1) ELSE {})] :
            SumSizes(g, K) <= k } :
        K \in { K \in SUBSET TopNames : Cardinality(K) <= k } } }

\* Directories of one and of two entries.
Dir1(n, node) == DirN([m \in {n} |-> node])
Dir2(n1, node1, n2, node2) ==
    DirN([m \in {n1, n2} |-> IF m = n1 THEN node1 ELSE node2])

\* Sources with a subdirectory d of a plain and a marked file, beside a
\* plain file x and its template x.j2 or alone.
DeepSrc ==
    LET d == Dir2(<<"f">>, FileN(<<"a">>), <<"f">> \o J2, FileN(<<VarTok, NL>>))
    IN  { Dir1(<<"d">>, d),
          DirN([m \in { <<"x">>, <<"x">> \o J2, <<"d">> } |->
                  IF m = <<"x">> THEN FileN(<<"a">>)
                  ELSE IF m = <<"d">> THEN d
                  ELSE FileN(<<VarTok, NL>>)]) }

\* Destinations that hold, in their subdirectory d, a directory or a file
\* where the source has the file d/f, beside files of their own.
DeepDest ==
    { Dir2(<<"y">>, FileN(<<"a">>),
           <<"d">>, Dir2(<<"g">>, FileN(<<"a">>), <<"f">>, EmptyDir)),
      Dir1(<<"d">>, Dir1(<<"f">>, Dir1(<<"f">>, EmptyDir))),
      Dir1(<<"d">>, Dir1(<<"f">>, FileN(<<VarTok, NL>>))),
      Dir1(<<"d">>, FileN(<<"a">>)) }

\* <template>/<name>: missing, a file, or a directory.
SrcStates(k) == { Absent, FileN(<<"a">>) } \cup Trees(k) \cup DeepSrc
\* <destination>/<name>: absent, a file, or a directory already holding files.
DestStates(k) == { Absent, FileN(<<"a">>) } \cup Trees(k) \cup DeepDest

\* ------------------------------------------------------------- the program
components == << "lambda" >>

Range(seq) == { seq[i] : i \in 1..Len(seq) }

\* config left as it was created, the loaded mapping dropped.
Update_drops(config, loaded) == config

\* dict.update
Update(config, loaded) ==
    [k \in DOMAIN config \cup DOMAIN loaded |->
        IF k \in DOMAIN loaded THEN loaded[k] ELSE config[k]]

EmptyMapping == [k \in {} |-> "b"]

\* The orders os.listdir may give the entries of a directory in.
RECURSIVE Listings(_)
Listings(S) ==
    IF S = {} THEN { <<>> }
    ELSE UNION { { <<n>> \o l : l \in Listings(S \ {n}) } : n \in S }

\* The loop of deploy_app over the listing l, from the directory dir: the
\* directory it leaves, and whether it ran to the end (ok) or raised.
RECURSIVE RenderLoop(_, _, _)
RenderLoop(dir, l, input_json) ==
    IF l = <<>> THEN [ok |-> TRUE, dir |-> dir]
    ELSE IF ~endswith(Head(l)) THEN RenderLoop(dir, Tail(l), input_json)
    ELSE LET r == render_template(dir, Head(l), strip(Head(l)), input_json)
         IN  IF r.ok THEN RenderLoop(r.dir, Tail(l), input_json) ELSE r

VARIABLES
    tmpl,       \* component name -> node at <template>/<name>
    dest,       \* component name -> node at <destination>/<name>
    registry,   \* the component registry
    args,       \* the parsed command line: fullStack, app
    input,      \* the mapping in the JSON file of --input
    opts,       \* opts of __main__: app, inputJSON (srcDir, destDir follow app)
    pc,         \* "start", "deploy", "render" (the loop of deploy_app),
                \* "get_template", "open", "remove" (inside render_template),
                \* "done", "exit1", "crashed"
    cur,        \* the call of render_template in progress: its arguments
                \* and rendered_template
    todo,       \* components the loop of full-stack mode has yet to reach
    listing,    \* the entries of os.listdir(dest_dir) the loop has yet to
                \* reach; os.listdir orders them arbitrarily, any may be next
    hist        \* history: what the run has done so far

vars == << tmpl, dest, registry, args, input, opts, pc, cur, todo, listing, hist >>

NoHist(d) ==
    [run |-> 0,         \* invocations of the script so far
     init |-> d,        \* the destinations before the first invocation
     snap |-> d,        \* the destinations when this invocation began
     atCall |-> d,      \* the destinations when deploy_app was last entered
     post |-> Absent,   \* dest_dir right after the last copy_tree
     rendered |-> 0,    \* render_template calls of this invocation that wrote
     skipped |-> 0,     \* render_template calls of it that found no file
     ctx |-> {},        \* the mappings render_template was called with
     failed |-> {},     \* the entry render_template raised over
     raced |-> FALSE]   \* another process has removed an entry

NoCall == [template_name |-> <<>>, file_name |-> <<>>, rendered_template |-> <<>>]

InitProcess ==
    /\ opts = [app |-> "", inputJSON |-> EmptyMapping]
    /\ pc = "start"
    /\ cur = NoCall
    /\ todo = <<>>
    /\ listing = {}
    /\ hist = NoHist(dest)

Init ==
    /\ registry = components
    /\ tmpl \in [Range(registry) -> SrcStates(MaxSrcEntries)]
    /\ dest \in [Range(registry) -> DestStates(MaxDestEntries)]
    /\ args \in [fullStack : BOOLEAN, app : Range(registry)]
    /\ input \in Mappings
    /\ InitProcess

\* The runs beside another process: every source, over a destination that is
\* absent or a directory of at most one entry.
RaceDest == { Absent } \cup Trees(1)

InitRace ==
    /\ registry = components
    /\ tmpl \in [Range(registry) -> SrcStates(MaxSrcEntries)]
    /\ dest \in [Range(registry) -> RaceDest]
    /\ args \in [fullStack : BOOLEAN, app : Range(registry)]
    /\ input \in Mappings
    /\ InitProcess

src_dir == tmpl[opts.app]
dest_dir == dest[opts.app]

Begin(h) ==
    [h EXCEPT !.run = @ + 1, !.snap = dest, !.atCall = dest, !.post = Absent,
              !.rendered = 0, !.skipped = 0, !.ctx = {}]

\* __main__ with --fullStack: load the JSON, enter deploy_app for the first
\* component of the registry.
MainFullStack ==
    /\ pc = "start"
    /\ args.fullStack
    /\ opts' = [app |-> Head(registry),
                inputJSON |-> Update(EmptyMapping, input)]
    /\ todo' = Tail(registry)
    /\ pc' = "deploy"
    /\ hist' = Begin(hist)
    /\ UNCHANGED << tmpl, dest, registry, args, input, cur, listing >>

\* __main__ for one application: load the JSON, enter deploy_app for it.
MainSingle ==
    /\ pc = "start"
    /\ ~args.fullStack
    /\ opts' = [app |-> args.app,
                inputJSON |-> Update(EmptyMapping, input)]
    /\ todo' = <<>>
    /\ pc' = "deploy"
    /\ hist' = Begin(hist)
    /\ UNCHANGED << tmpl, dest, registry, args, input, cur, listing >>

\* deploy_app creating the destination directory before it looks for the
\* source directory.
DeployMissing_mkdir ==
    /\ pc = "deploy"
    /\ ~Exists(src_dir)
    /\ pc' = "exit1"
    /\ dest' = [dest EXCEPT ![opts.app] = IF IsDir(@) THEN @ ELSE EmptyDir]
    /\ UNCHANGED << tmpl, registry, args, input, opts, cur, todo, listing, hist >>

\* deploy_app: the source directory does not exist, exit(1).
DeployMissing ==
    /\ pc = "deploy"
    /\ ~Exists(src_dir)
    /\ pc' = "exit1"
    /\ UNCHANGED << tmpl, dest, registry, args, input, opts, cur, todo, listing, hist >>

\* deploy_app: copy_tree runs to the end, os.listdir(dest_dir) is taken.
DeployCopy ==
    /\ pc = "deploy"
    /\ Exists(src_dir)
    /\ CopyOk(src_dir, dest_dir)
    /\ LET copied == copy_tree(src_dir, dest_dir)
       IN  /\ dest' = [dest EXCEPT ![opts.app] = copied]
           /\ listing' = Names(copied)
           /\ hist' = [hist EXCEPT !.post = copied]
    /\ pc' = "render"
    /\ UNCHANGED << tmpl, registry, args, input, opts, cur, todo >>

\* deploy_app: copy_tree raises, the run ends with a traceback.
DeployCopyFails ==
    /\ pc = "deploy"
    /\ Exists(src_dir)
    /\ ~CopyOk(src_dir, dest_dir)
    /\ \E left \in CopyPartial(src_dir, dest_dir) :
          dest' = [dest EXCEPT ![opts.app] = left]
    /\ pc' = "crashed"
    /\ UNCHANGED << tmpl, registry, args, input, opts, cur, todo, listing, hist >>

\* The loop of deploy_app reaches an entry ending in '.j2' and calls
\* render_template, which tests os.path.exists(template_file) and returns
\* when the file is not there.
RenderExists ==
    /\ pc = "render"
    /\ \E fname \in listing :
          /\ endswith(fname)
          /\ IF template_exists(dest_dir, fname)
             THEN /\ cur' = [template_name |-> fname, file_name |-> strip(fname),
                             rendered_template |-> <<>>]
                  /\ pc' = "get_template"
                  /\ listing' = listing
                  /\ hist' = [hist EXCEPT !.ctx = @ \cup { opts.inputJSON }]
             ELSE /\ cur' = NoCall
                  /\ pc' = "render"
                  /\ listing' = listing \ {fname}
                  /\ hist' = [hist EXCEPT !.ctx = @ \cup { opts.inputJSON },
                                          !.skipped = @ + 1]
    /\ UNCHANGED << tmpl, dest, registry, args, input, opts, todo >>

\* render_template opening the output file before it renders: a template
\* that fails to render leaves the output file empty.
RenderGetTemplate_truncates ==
    /\ pc = "get_template"
    /\ LET r == get_template_render(dest_dir, cur.template_name, opts.inputJSON)
           w == open_write(dest_dir, cur.file_name, <<>>)
       IN  IF r.ok /\ w.ok
           THEN /\ cur' = [cur EXCEPT !.rendered_template = r.text]
                /\ pc' = "open"
                /\ UNCHANGED << dest, hist >>
           ELSE /\ pc' = "crashed"
                /\ dest' = [dest EXCEPT ![opts.app] = w.dir]
                /\ hist' = [hist EXCEPT !.failed = { cur.template_name }]
                /\ UNCHANGED cur
    /\ UNCHANGED << tmpl, registry, args, input, opts, todo, listing >>

\* render_template: get_template(template_name).render(input_json).
RenderGetTemplate ==
    /\ pc = "get_template"
    /\ LET r == get_template_render(dest_dir, cur.template_name, opts.inputJSON)
       IN  IF r.ok
           THEN /\ cur' = [cur EXCEPT !.rendered_template = r.text]
                /\ pc' = "open"
                /\ UNCHANGED hist
           ELSE /\ pc' = "crashed"
                /\ hist' = [hist EXCEPT !.failed = { cur.template_name }]
                /\ UNCHANGED cur
    /\ UNCHANGED << tmpl, dest, registry, args, input, opts, todo, listing >>

\* render_template: the output file is opened and written.  (A removal of
\* the output file between open and write leaves what one right after the
\* write leaves.)
RenderWrite ==
    /\ pc = "open"
    /\ LET w == open_write(dest_dir, cur.file_name, cur.rendered_template)
       IN  IF w.ok
           THEN /\ dest' = [dest EXCEPT ![opts.app] = w.dir]
                /\ pc' = "remove"
                /\ UNCHANGED hist
           ELSE /\ pc' = "crashed"
                /\ hist' = [hist EXCEPT !.failed = { cur.template_name }]
                /\ UNCHANGED dest
    /\ UNCHANGED << tmpl, registry, args, input, opts, cur, todo, listing >>

\* render_template: os.remove(template_file); the call returns and the loop
\* goes on.
RenderRemove ==
    /\ pc = "remove"
    /\ LET d == os_remove(dest_dir, cur.template_name)
       IN  IF d.ok
           THEN /\ dest' = [dest EXCEPT ![opts.app] = d.dir]
                /\ pc' = "render"
                /\ cur' = NoCall
                /\ listing' = listing \ { cur.template_name }
                /\ hist' = [hist EXCEPT !.rendered = @ + 1]
           ELSE /\ pc' = "crashed"
                /\ hist' = [hist EXCEPT !.failed = { cur.template_name }]
                /\ UNCHANGED << dest, cur, listing >>
    /\ UNCHANGED << tmpl, registry, args, input, opts, todo >>

\* One pass of the loop over an entry that does not end in '.j2'.
SkipEntry ==
    /\ pc = "render"
    /\ \E fname \in listing :
          /\ ~endswith(fname)
          /\ listing' = listing \ {fname}
    /\ UNCHANGED << tmpl, dest, registry, args, input, opts, pc, cur, todo, hist >>

\* The loop of deploy_app is over: report, and return to __main__, which
\* enters deploy_app for the next component or ends.
DeployDone ==
    /\ pc = "render"
    /\ listing = {}
    /\ IF todo = <<>>
       THEN /\ pc' = "done"
            /\ UNCHANGED << opts, todo, hist >>
       ELSE /\ pc' = "deploy"
            /\ opts' = [opts EXCEPT !.app = Head(todo)]
            /\ todo' = Tail(todo)
            /\ hist' = [hist EXCEPT !.atCall = dest]
    /\ UNCHANGED << tmpl, dest, registry, args, input, cur, listing >>

\* The script is run again with the same command line once it has ended
\* with status 0.
Invoke ==
    /\ pc = "done"
    /\ hist.run < MaxRuns
    /\ pc' = "start"
    /\ opts' = [app |-> "", inputJSON |-> EmptyMapping]
    /\ UNCHANGED << tmpl, dest, registry, args, input, cur, todo, listing, hist >>

\* The loop of deploy_app and the calls it makes.
InLoop == pc \in { "render", "get_template", "open", "remove" }

\* Another process removes a file of dest_dir while the loop runs, between
\* any two file-system operations of the script.
ExternalRemove ==
    /\ InLoop
    /\ ~hist.raced
    /\ \E n \in Names(dest_dir) :
          /\ IsFile(Lookup(dest_dir, n))
          /\ dest' = [dest EXCEPT ![opts.app] = Remove(dest_dir, n)]
    /\ hist' = [hist EXCEPT !.raced = TRUE]
    /\ UNCHANGED << tmpl, registry, args, input, opts, pc, cur, todo, listing >>

\* The steps of one run of the script.
Run ==
    \/ MainFullStack
    \/ MainSingle
    \/ DeployMissing
    \/ DeployCopy
    \/ DeployCopyFails
    \/ RenderExists
    \/ RenderGetTemplate
    \/ RenderWrite
    \/ RenderRemove
    \/ SkipEntry
    \/ DeployDone

Next == Run \/ Invoke

\* One run of the script beside a process that removes a file.
NextRace == Run \/ ExternalRemove

Spec == Init /\ [][Next]_vars
SpecRace == InitRace /\ [][NextRace]_vars

\* ------------------------------------------------------------- properties
\* A name is marked when it is some name followed by '.j2'; that name is
\* its base.
Prefixes(n) == { SubSeq(n, 1, k) : k \in 0..Len(n) }
IsMarked(n) == \E b \in Prefixes(n) : b \o J2 = n
Base(n) == CHOOSE b \in Prefixes(n) : b \o J2 = n

\* The marked entries of a directory, and their bases.
Marked(dir) == IF IsDir(dir) THEN { n \in Names(dir) : IsMarked(n) } ELSE {}
Stripped(dir) == { Base(n) : n \in Marked(dir) }

\* The paths of the files and of the subdirectories under a directory, at
\* any depth.
RECURSIVE FilePaths(_)
FilePaths(dir) ==
    IF ~IsDir(dir) THEN {}
    ELSE UNION { IF IsFile(dir.kids[n]) THEN { <<n>> }
                 ELSE { <<n>> \o p : p \in FilePaths(dir.kids[n]) } :
                 n \in Names(dir) }
RECURSIVE DirPaths(_)
DirPaths(dir) ==
    IF ~IsDir(dir) THEN {}
    ELSE UNION { IF IsDir(dir.kids[n])
                 THEN { <<n>> } \cup { <<n>> \o p : p \in DirPaths(dir.kids[n]) }
                 ELSE {} :
                 n \in Names(dir) }

\* What is at a path under a directory.
RECURSIVE FileAt(_, _)
FileAt(dir, path) ==
    IF path = <<>> THEN dir ELSE FileAt(Lookup(dir, Head(path)), Tail(path))

Last(path) == path[Len(path)]
StripLast(path) ==
    IF IsMarked(Last(path))
    THEN SubSeq(path, 1, Len(path) - 1) \o << Base(Last(path)) >>
    ELSE path
StripTop(path) == IF Len(path) = 1 THEN StripLast(path) ELSE path

\* deploy_app has just run to its end (the script ends with status 0).
Completed == pc = "done"
\* The destination directory when that deploy_app was entered.
dest_before == hist.atCall[opts.app]

\* Where copy_file puts the source file of path p: at p, or, when the
\* destination held a directory at p, in that directory under its own name.
Land(p) == IF IsDir(FileAt(dest_before, p)) THEN p \o << Last(p) >> ELSE p
Landed == { Land(p) : p \in FilePaths(src_dir) }

\* The file paths after the copy, read off the source and the destination as
\* deploy_app found them: the source's files where they land and the
\* destination's own; and the file the copy leaves at such a path.
Copied == Landed \cup FilePaths(dest_before)
CopiedAt(q) ==
    IF q \in Landed
    THEN FileAt(src_dir, CHOOSE p \in FilePaths(src_dir) : Land(p) = q)
    ELSE FileAt(dest_before, q)

\* The top-level marked files after the copy, which the loop is to render,
\* and the names their outputs go to.
Listed == { q[1] : q \in { r \in Copied : Len(r) = 1 /\ IsMarked(r[1]) } }
Outputs == { Base(m) : m \in Listed }
TemplateOf(k) == CHOOSE m \in Listed : Base(m) = k

\* C1 as stated: after a successful deploy_app the destination holds exactly
\* the structure of the source, every file ending in '.j2', wherever it is,
\* replaced by its rendering under the stripped name, and no file ending in
\* '.j2' anywhere.
C1_AsStated ==
    Completed =>
        /\ FilePaths(dest_dir) = { StripLast(p) : p \in FilePaths(src_dir) }
        /\ DirPaths(dest_dir) = DirPaths(src_dir)
        /\ \A p \in FilePaths(src_dir) :
              FileAt(dest_dir, StripLast(p)) =
                 IF IsMarked(Last(p))
                 THEN FileN(Render(FileAt(src_dir, p).data, input))
                 ELSE FileAt(src_dir, p)
        /\ \A p \in FilePaths(dest_dir) : ~IsMarked(Last(p))

\* C1, amended: after a successful deploy_app the destination holds the
\* directories of the source and those it held before.  Below the top level
\* every file is as the copy left it, marked or not: a source file at its own
\* path, or inside the directory the destination held at that path, under its
\* own name; a file of the destination the source does not overwrite, as it
\* was.  At the top level a plain file that is not the output of a template
\* is as the copy left it; every marked file m the copy left is rendered: when
\* m is not itself the output of another marked file, m is gone and base(m)
\* holds the rendering of m as copied, unless base(m) is a marked file too
\* (x.j2 beside x.j2.j2), when base(m) holds that rendering or is gone; when m
\* is the output of another marked file, base(m) is a file.  A top-level
\* marked name is left only as such an output.
C1_Rendered ==
    Completed =>
        /\ DirPaths(dest_dir) = DirPaths(src_dir) \cup DirPaths(dest_before)
        /\ \A q \in Copied :
              (Len(q) >= 2 \/ (~IsMarked(q[1]) /\ q[1] \notin Outputs))
                 => FileAt(dest_dir, q) = CopiedAt(q)
        /\ \A m \in Listed :
              LET out == Lookup(dest_dir, Base(m))
                  text == FileN(Render(CopiedAt(<<m>>).data, input))
              IN  /\ Base(m) \notin Listed => IsFile(out)
                  /\ m \notin Outputs =>
                        /\ ~Exists(Lookup(dest_dir, m))
                        /\ out = text \/ (Base(m) \in Listed /\ out = Absent)
        /\ \A n \in Names(dest_dir) : IsMarked(n) => n \in Outputs

\* A first successful run that rendered a top-level template of the source,
\* left the marked file of a source subdirectory as it is, and put a file of
\* that subdirectory inside a directory the destination held at its path.
C1_Witness ==
    /\ Completed
    /\ hist.run = 1
    /\ \E m \in Listed :
          /\ <<m>> \in FilePaths(src_dir)
          /\ ~Exists(Lookup(dest_dir, m))
          /\ Lookup(dest_dir, Base(m)) = FileN(Render(FileAt(src_dir, <<m>>).data, input))
    /\ \E p \in FilePaths(src_dir) :
          Len(p) >= 2 /\ IsMarked(Last(p)) /\ FileAt(dest_dir, p) = FileAt(src_dir, p)
    /\ \E p \in FilePaths(src_dir) :
          Land(p) # p /\ FileAt(dest_dir, Land(p)) = FileAt(src_dir, p)

\* C2 as stated: whatever the destination held, after a successful deploy_app
\* its file paths are those of the source with '.j2' stripped from the
\* top-level entries.
C2_AsStated ==
    Completed =>
        FilePaths(dest_dir) = { StripTop(p) : p \in FilePaths(src_dir) }

\* C2, amended: after a successful deploy_app the file paths of the
\* destination are those the copy left (the source's, each at its own path or,
\* where the destination held a directory at that path, inside it under the
\* file's own name, and the destination's own), with every top-level marked
\* file among them replaced by its stripped name; only a stripped name that
\* is itself one of those marked files (x.j2 beside x.j2.j2) may be present
\* or absent.  Files in subdirectories keep their names.  For a destination
\* that was absent or empty and a source without such a pair, they are the
\* source's paths with '.j2' stripped from the top-level entries.
C2_Paths ==
    Completed =>
        LET M == { <<m>> : m \in Listed }
        IN  /\ (Copied \ M) \cup { <<k>> : k \in Outputs \ Listed }
                  \subseteq FilePaths(dest_dir)
            /\ FilePaths(dest_dir)
                  \subseteq (Copied \ M) \cup { <<k>> : k \in Outputs }
            /\ ( /\ FilePaths(dest_before) = {}
                 /\ DirPaths(dest_before) = {}
                 /\ Outputs \cap Listed = {} )
                  => FilePaths(dest_dir) = { StripTop(p) : p \in FilePaths(src_dir) }

\* A first successful run over a destination that held files: a file of its
\* own is still there, a source file went inside a directory it held, and a
\* top-level template of the source is replaced by its stripped name.
C2_Witness ==
    /\ Completed
    /\ hist.run = 1
    /\ \E q \in FilePaths(dest_before) \ Landed : q \in FilePaths(dest_dir)
    /\ \E p \in FilePaths(src_dir) : Land(p) # p /\ Land(p) \in FilePaths(dest_dir)
    /\ \E m \in Listed :
          /\ <<m>> \in FilePaths(src_dir)
          /\ <<m>> \notin FilePaths(dest_dir)
          /\ <<Base(m)>> \in FilePaths(dest_dir)

\* C3: when <template>/<name> does not exist as deploy_app is entered, the
\* next step of the process is its exit with status 1, nothing is copied and
\* the destinations are left as they were; the process takes no step after.
C3_MissingSource ==
    [][ /\ (pc = "deploy" /\ ~Exists(src_dir))
            => (pc' = "exit1" /\ dest' = dest /\ hist'.post = hist.post)
        /\ pc' = "exit1"
            => (~Exists(src_dir) /\ dest' = hist.atCall)
        /\ pc # "exit1" ]_vars

\* The process has exited with status 1 over a destination that holds files.
C3_Witness ==
    /\ pc = "exit1"
    /\ ~Exists(src_dir)
    /\ FilePaths(dest_dir) # {}
    /\ dest = hist.init

\* C4 as stated: after a successful deploy_app every file of the source
\* whose name does not end in '.j2' is at the same path in the destination
\* with the same contents, and the render loop has modified or removed no file
\* whose name does not end in '.j2'.
C4_AsStated ==
    Completed =>
        /\ \A p \in FilePaths(src_dir) :
              ~IsMarked(Last(p)) => FileAt(dest_dir, p) = FileAt(src_dir, p)
        /\ \A p \in FilePaths(hist.post) :
              ~IsMarked(Last(p)) => FileAt(dest_dir, p) = FileAt(hist.post, p)

\* C4, amended: after a successful deploy_app an unmarked file of the source
\* is in the destination with the same contents, at the same path or, when
\* the destination held a directory at that path, inside that directory under
\* its own name; unless it is at the top level and a marked file of its name
\* plus '.j2' was there after the copy: it is then a file, and holds the
\* rendering of that marked file as copied when that one is not itself the
\* output of another.  The render loop removes no unmarked file the copy
\* left, of the source or the destination's own, and modifies none but by
\* that overwrite.
C4_Unmarked ==
    Completed =>
        /\ \A p \in FilePaths(src_dir) :
              ~IsMarked(Last(p)) =>
                 IF Len(Land(p)) >= 2 \/ p[1] \notin Outputs
                 THEN FileAt(dest_dir, Land(p)) = FileAt(src_dir, p)
                 ELSE /\ IsFile(FileAt(dest_dir, p))
                      /\ TemplateOf(p[1]) \notin Outputs =>
                            FileAt(dest_dir, p) =
                               FileN(Render(CopiedAt(<<TemplateOf(p[1])>>).data, input))
        /\ \A q \in Copied :
              ~IsMarked(Last(q)) =>
                 /\ IsFile(FileAt(dest_dir, q))
                 /\ (Len(q) >= 2 \/ q[1] \notin Outputs)
                       => FileAt(dest_dir, q) = CopiedAt(q)

\* A successful run in which the rendering of x.j2 has overwritten the
\* unmarked file x of the source with other contents, an unmarked file of a
\* source subdirectory went inside a directory the destination held at its
\* path, and an unmarked file of the destination's own is as it was.
C4_Witness ==
    /\ Completed
    /\ \E p \in FilePaths(src_dir) :
          /\ Len(p) = 1
          /\ ~IsMarked(p[1])
          /\ p[1] \in Outputs
          /\ FileAt(dest_dir, p) # FileAt(src_dir, p)
    /\ \E p \in FilePaths(src_dir) :
          /\ ~IsMarked(Last(p))
          /\ Land(p) # p
          /\ FileAt(dest_dir, Land(p)) = FileAt(src_dir, p)
    /\ \E q \in FilePaths(dest_before) \ Landed :
          /\ ~IsMarked(Last(q))
          /\ Len(q) >= 2 \/ q[1] \notin Outputs
          /\ FileAt(dest_dir, q) = FileAt(dest_before, q)

\* No file under the directory, at any depth, has a name ending in '.j2'.
NoMarkedFile(dir) == \A p \in FilePaths(dir) : ~IsMarked(Last(p))

\* C6 as stated: a second successful run, over the destination a first
\* successful run left with no marked file, copies only identical content,
\* finds no entry ending in '.j2' to render, and leaves the destination as the
\* first run left it.
C6_AsStated ==
    (Completed /\ hist.run >= 2 /\ NoMarkedFile(hist.snap[opts.app])) =>
        /\ hist.post = hist.snap[opts.app]
        /\ hist.rendered = 0
        /\ dest = hist.snap

\* C6, amended: when neither the source nor the destination before the first
\* run holds a top-level entry ending in '.j2', a further successful run
\* copies only identical content, finds no entry to render and leaves the
\* destination as the run before left it; when the source holds such an
\* entry, the copy of a further run brings it back and the render loop of
\* that run renders again.
C6_SecondRun ==
    (Completed /\ hist.run >= 2) =>
        /\ (Marked(src_dir) = {} /\ Marked(hist.init[opts.app]) = {}) =>
              /\ hist.post = hist.snap[opts.app]
              /\ hist.rendered = 0
              /\ dest = hist.snap
        /\ Marked(src_dir) # {} => hist.rendered > 0

\* A second successful run over a source of plain files only.
C6_Witness ==
    /\ Completed
    /\ hist.run = 2
    /\ Marked(src_dir) = {}
    /\ Marked(hist.init[opts.app]) = {}
    /\ FilePaths(src_dir) # {}
    /\ FilePaths(hist.init[opts.app]) # {}
    /\ dest = hist.snap

\* C7: a call of render_template for an entry ending in '.j2' whose file is
\* not in dest_dir as the call is made returns without raising: it creates,
\* modifies and deletes nothing and leaves the process in the loop with the
\* remaining entries; only such a call returns early, and the call goes past
\* its test only for an entry that is there.
C7_MissingSkipped ==
    [][ /\ \A fname \in listing :
              ( /\ pc = "render"
                /\ IsMarked(fname)
                /\ ~Exists(Lookup(dest_dir, fname))
                /\ listing' = listing \ { fname } )
              => (dest' = dest /\ pc' = "render" /\ hist'.skipped = hist.skipped + 1)
        /\ pc = "render" => pc' # "crashed"
        /\ (pc = "render" /\ pc' = "get_template") =>
              /\ cur'.template_name \in listing
              /\ IsMarked(cur'.template_name)
              /\ Exists(Lookup(dest_dir, cur'.template_name))
        /\ hist'.skipped > hist.skipped =>
              /\ dest' = dest
              /\ pc' = "render"
              /\ \E fname \in listing :
                    /\ IsMarked(fname)
                    /\ ~Exists(Lookup(dest_dir, fname))
                    /\ listing' = listing \ { fname } ]_vars

\* The run has reported completion after render_template found no file for
\* one entry and rendered another.
C7_Witness ==
    /\ Completed
    /\ hist.skipped > 0
    /\ hist.rendered > 0

\* C8: once the JSON is loaded, opts['inputJSON'] is the mapping of the
\* input file at every point of the run, whatever was copied, rendered or
\* failed, and every call of render_template was given that mapping.
C8_SameMapping ==
    /\ pc # "start" => opts.inputJSON = input
    /\ hist.ctx \subseteq { input }

\* A full-stack run has rendered two templates with the mapping of the
\* input file.
C8_Witness ==
    /\ Completed
    /\ args.fullStack
    /\ hist.rendered >= 2
    /\ hist.ctx = { input }
    /\ input # EmptyMapping

\* C9: when render_template raises over a top-level marked entry, at its
\* get_template().render or at its open, the process ends there: the marked
\* file of the entry is still in dest_dir, nothing has been written for it
\* (no step of the call before the write changes a file, and the marked file
\* is still there after the write), the destinations are as they were before
\* the call (what was rendered before stays rendered), the remaining entries
\* and components are never reached, and no step follows.
C9_RenderAbort ==
    [][ /\ (InLoop /\ pc' = "crashed") =>
              /\ pc \in { "get_template", "open" }
              /\ cur.template_name \in listing
              /\ hist'.failed = { cur.template_name }
              /\ IsMarked(cur.template_name)
              /\ Exists(Lookup(dest_dir', cur.template_name))
              /\ dest' = dest
              /\ listing' = listing
              /\ todo' = todo
              /\ hist'.rendered = hist.rendered
        /\ pc \in { "render", "get_template" } => dest' = dest
        /\ (pc = "open" /\ pc' = "remove") =>
              /\ Exists(Lookup(dest_dir', cur.template_name))
              /\ \A n \in Names(dest_dir) \ { cur.file_name } :
                    Lookup(dest_dir', n) = Lookup(dest_dir, n)
        /\ pc # "crashed" ]_vars

\* The process has ended on a template that does not compile, after it
\* rendered another entry, whose output is in place.
C9_Witness ==
    /\ pc = "crashed"
    /\ hist.failed # {}
    /\ hist.rendered > 0
    /\ \E fname \in hist.failed :
          /\ IsFile(Lookup(dest_dir, fname))
          /\ ~Compiles(Lookup(dest_dir, fname).data)
    /\ \E n \in Stripped(hist.post) : IsFile(Lookup(dest_dir, n))

\* C10: the destination a successful deploy_app leaves does not depend on
\* the order of os.listdir: from the directory as it was right after the copy,
\* the loop run over any order of the entries ends and leaves the same files
\* with the same contents as this run left.
C10_OrderIndependent ==
    Completed =>
        \A l \in Listings(Names(hist.post)) :
            RenderLoop(hist.post, l, opts.inputJSON) = [ok |-> TRUE, dir |-> dest_dir]

====
